---- MODULE Spec2Model ----
(***************************************************************************)
(* A model of usrlinks.py: the probe of one platform (check_platform over  *)
(* the session built by get_session_with_retries), the concurrent scan     *)
(* (scan_usernames), and main's retry passes and output surfaces.          *)
(*                                                                         *)
(* Text is a sequence of one-character strings; a URL is a sequence of     *)
(* tokens; Python's None/True/False are the strings "None"/"True"/"False". *)
(***************************************************************************)
EXTENDS Integers, Sequences, FiniteSets, TLC

VARIABLES
    probe,          \* one stand-alone call of check_platform: inputs and outcome
    call,           \* one stand-alone run of another function: inputs, position, outcome
    args,           \* main: the parsed command line (threads, retry, output, deep_scan)
    username,       \* main: args.username
    platforms,      \* main: the loaded platform dict, name -> info
    items,          \* scan_usernames: list(platforms.items()), in dict order
    pc,             \* position of the main thread
    submitted,      \* scan_usernames: how many items were handed to the executor
    queue,          \* executor: work items not yet taken by a worker
    running,        \* executor: platforms whose check_platform call is in flight
    done,           \* executor: finished futures not yet yielded by as_completed
    results,        \* scan_usernames / main: the results list
    pbar,           \* scan_usernames: the progress bar's counter
    events,         \* scan_usernames: the platforms the progress bar was updated for
    failed_results, \* main: the retry loop's work list
    retry_results,  \* main: the current retry pass's results
    attempt,        \* main: the retry loop's attempt index
    tables,         \* output: the tables printed by print_result_table, in order
    displayed,      \* output: the rows display_results added to its table
    saved           \* output: the rows save_results wrote

vars == <<probe, call, args, username, platforms, items, pc, submitted, queue,
          running, done, results, pbar, events, failed_results, retry_results,
          attempt, tables, displayed, saved>>

scanVars == <<args, username, platforms, items, pc, submitted, queue,
              running, done, results, pbar, events, failed_results, retry_results,
              attempt, tables, displayed, saved>>

----------------------------------------------------------------------------
(* Bounds *)

MaxPlatforms == 3
MaxThreads == 2
MaxBody == 5

----------------------------------------------------------------------------
(* Text *)

\* code points of the characters the model uses (Python compares str by code point)
Ord(c) ==
    CASE c = "<" -> 60
      [] c = ">" -> 62
      [] c = "A" -> 65
      [] c = "B" -> 66
      [] c = "a" -> 97
      [] c = "b" -> 98
      [] c = "u" -> 117

\* str.lower() on one character
LowerChar(c) ==
    CASE c = "A" -> "a"
      [] c = "B" -> "b"
      [] c = "K" -> "k"
      [] c = "N" -> "n"
      [] c = "O" -> "o"
      [] c = "Y" -> "y"
      [] OTHER -> c

\* str.lower()
lower(s) == [i \in DOMAIN s |-> LowerChar(s[i])]

\* Python's `m in s` for strings
IsInfix(m, s) ==
    \E i \in 0..(Len(s) - Len(m)) : SubSeq(s, i + 1, i + Len(m)) = m

\* Python's s < t for strings: lexicographic by code point
RECURSIVE StrLess(_, _)
StrLess(s, t) ==
    IF t = <<>> THEN FALSE
    ELSE IF s = <<>> THEN TRUE
    ELSE IF Ord(Head(s)) # Ord(Head(t)) THEN Ord(Head(s)) < Ord(Head(t))
    ELSE StrLess(Tail(s), Tail(t))

\* the rest of a document after the first ">", or nothing if the tag never closes
RECURSIVE AfterTag(_)
AfterTag(s) ==
    IF s = <<>> THEN <<>>
    ELSE IF Head(s) = ">" THEN Tail(s)
    ELSE AfterTag(Tail(s))

\* get_text as if the markup were text: the document unchanged
get_text_raw(s) == s

\* BeautifulSoup(text, "html.parser").get_text(): the document without its tags
RECURSIVE get_text(_)
get_text(s) ==
    IF s = <<>> THEN <<>>
    ELSE IF Head(s) = "<" THEN get_text(AfterTag(Tail(s)))
    ELSE <<Head(s)>> \o get_text(Tail(s))

----------------------------------------------------------------------------
(* Platform specs, URLs and the transport *)

\* the number of "{}" fields of a URL template
Slots(t) == Cardinality({i \in DOMAIN t : t[i] = "{}"})

\* a template's tokens with every "{}" replaced by the argument
RECURSIVE Subst(_, _)
Subst(t, uname) ==
    IF t = <<>> THEN <<>>
    ELSE (IF Head(t) = "{}" THEN uname ELSE <<Head(t)>>) \o Subst(Tail(t), uname)

\* info["url"].format(username): one positional argument, so a second "{}" field
\* raises IndexError and a missing "url" key raises KeyError
Format(info, uname) ==
    IF "url" \notin DOMAIN info
    THEN [ok |-> FALSE, exc |-> <<"KeyError", "url">>, url |-> <<>>]
    ELSE IF Slots(info.url) > 1
    THEN [ok |-> FALSE, exc |-> <<"IndexError", "format">>, url |-> <<>>]
    ELSE [ok |-> TRUE, exc |-> <<>>, url |-> Subst(info.url, uname)]

\* Retry(total=3, ...): retries allowed after the first request
RetryTotal == 3

\* status_forcelist of the mounted adapter
StatusForcelist == {429, 500, 502, 503, 504}

\* the Retry object of the adapter mounted on "https://"
MountedRetry == [total |-> RetryTotal, read |-> TRUE, status_forcelist |-> StatusForcelist]

\* the Retry object of requests' default adapter, which still serves "http://"
DefaultRetry == [total |-> 0, read |-> FALSE, status_forcelist |-> {}]

\* session.get_adapter(url): the adapter whose prefix the URL starts with
get_adapter(url) == IF url[1] = "https://" THEN MountedRetry ELSE DefaultRetry

\* the longest exchange one get() can have: the request and its retries
ScriptLen == RetryTotal + 1

\* what the transport answers to one request
ConnectError == [kind |-> "connect_error"]
ReadTimeout == [kind |-> "read_timeout"]
Response(status, body) == [kind |-> "response", status |-> status, body |-> body]

\* Retry.increment
increment(retries) == [retries EXCEPT !.total = @ - 1]

\* Retry.is_exhausted
is_exhausted(retries) == retries.total < 0

\* Retry.is_retry for a GET whose response carries no Retry-After header
is_retry(retries, status) == status \in retries.status_forcelist

\* HTTPAdapter.send over urllib3's urlopen: request number n of the exchange,
\* answered by script[n]; returns the response or the exception requests raises,
\* and the number of requests sent
RECURSIVE urlopen(_, _, _)
urlopen(retries, script, n) ==
    LET ans == script[n]
        raise(e) == [raised |-> TRUE, exc |-> e, sent |-> n]
    IN  IF ans.kind = "response"
        THEN IF is_retry(retries, ans.status)
             THEN IF is_exhausted(increment(retries))
                  THEN raise(<<"RetryError", ans.status>>)
                  ELSE urlopen(increment(retries), script, n + 1)
             ELSE [raised |-> FALSE, response |-> ans, sent |-> n]
        ELSE IF ans.kind = "read_timeout" /\ ~retries.read
        THEN raise(<<"ReadTimeout", ans.kind>>)
        ELSE IF is_exhausted(increment(retries))
        THEN raise(<<"ConnectionError", ans.kind>>)
        ELSE urlopen(increment(retries), script, n + 1)

\* session.get(url, timeout=timeout)
session_get(url, script) == urlopen(get_adapter(url), script, 1)

\* check_platform's "Check availability" step: is_available, or the exception
\* the step raises
classify(info, response) ==
    LET raise(k) == [raised |-> TRUE, exc |-> <<"KeyError", k>>]
        ret(b) == [raised |-> FALSE, is_available |-> b]
    IN  IF "method" \notin DOMAIN info THEN raise("method")
        ELSE IF info.method = "status_code"
        THEN IF "code" \notin DOMAIN info THEN raise("code")
             ELSE ret(response.status \in info.code)
        ELSE IF info.method = "response_text"
        THEN IF "error_msg" \notin DOMAIN info THEN raise("error_msg")
             ELSE LET page_text == lower(get_text(response.body))
                  IN  ret(\E i \in DOMAIN info.error_msg :
                              IsInfix(lower(info.error_msg[i]), page_text))
        ELSE ret(FALSE)

\* info.get("recon_enabled", False)
recon_enabled(info) == "recon_enabled" \in DOMAIN info /\ info.recon_enabled

\* check_platform: the call's result dict, or the exception it lets escape;
\* recon_fail names the recon step that raises, if any
\* a handler that resets the availability but records no error
FailedResultNoError(result, e, rd) ==
    [result EXCEPT !.available = "None", !.recon_data = rd]

\* check_platform's except clause: result["available"] = None and
\* result["error"] = str(e); the recon data stored before the failure stays
FailedResult(result, e, rd) ==
    [result EXCEPT !.available = "None", !.recon_data = rd] @@ [error |-> e]

check_platform(uname, platform, info, script, deep_scan, recon_fail) ==
    LET f == Format(info, uname)
        result == [platform |-> platform, url |-> f.url,
                   available |-> "None", recon_data |-> {}]
        failed(e, rd, n) ==
            [raised |-> FALSE, sent |-> n,
             result |-> FailedResult(result, e, rd)]
    IN  IF ~f.ok THEN [raised |-> TRUE, exc |-> f.exc, sent |-> 0]
        ELSE LET got == session_get(f.url, script)
             IN  IF got.raised THEN failed(got.exc, {}, got.sent)
                 ELSE LET c == classify(info, got.response)
                      IN  IF c.raised THEN failed(c.exc, {}, got.sent)
                          ELSE IF c.is_available
                          THEN [raised |-> FALSE, sent |-> got.sent,
                                result |-> [result EXCEPT !.available = "True"]]
                          ELSE IF ~(deep_scan /\ recon_enabled(info))
                          THEN [raised |-> FALSE, sent |-> got.sent,
                                result |-> [result EXCEPT !.available = "False"]]
                          ELSE IF recon_fail = "contact_info"
                          THEN failed(<<"ReconError", recon_fail>>, {}, got.sent)
                          ELSE IF recon_fail = "profile_image"
                          THEN failed(<<"ReconError", recon_fail>>,
                                      {"contact_info"}, got.sent)
                          ELSE [raised |-> FALSE, sent |-> got.sent,
                                result |-> [result EXCEPT
                                              !.available = "False",
                                              !.recon_data = {"contact_info",
                                                              "profile_image"}]]

----------------------------------------------------------------------------
(* One call of check_platform on its own *)

\* a URL template with the given scheme and number of "{}" fields
Template(scheme, slots) == <<scheme, "x", "/">> \o [i \in 1..slots |-> "{}"]

\* platform specs as load_platforms can return them (built in, or any JSON file)
StatusInfo(url, recon) ==
    [url |-> url, method |-> "status_code", code |-> {404}, recon_enabled |-> recon]
TextInfo(url, msgs, recon) ==
    [url |-> url, method |-> "response_text", error_msg |-> msgs,
     recon_enabled |-> recon]
OtherInfo(url) == [url |-> url, method |-> "redirect"]
NoMethodInfo(url) == [url |-> url]
NoCodeInfo(url) == [url |-> url, method |-> "status_code"]
NoUrlInfo == [method |-> "status_code", code |-> {404}]

HttpsUrl == Template("https://", 1)
HttpUrl == Template("http://", 1)

Statuses == {200, 403, 404, 429, 500}

ProbeInfos ==
    {StatusInfo(u, r) : u \in {HttpsUrl, HttpUrl}, r \in BOOLEAN}
    \cup {TextInfo(HttpsUrl, << <<"a">> >>, TRUE), OtherInfo(HttpsUrl),
          NoMethodInfo(HttpsUrl), NoCodeInfo(HttpsUrl), NoUrlInfo,
          StatusInfo(Template("https://", 2), FALSE),
          StatusInfo(Template("https://", 0), FALSE)}

ProbeAnswers ==
    {ConnectError, ReadTimeout}
    \cup {Response(s, <<>>) : s \in Statuses}
    \cup {Response(200, <<"A">>)}

\* the transport's answers to the requests of one call, in order
Scripts == [1..ScriptLen -> ProbeAnswers]

\* a transport that answers every request the same way
ConstScript(a) == [i \in 1..ScriptLen |-> a]

Chars == {"a", "A", "b", "<", ">"}

\* documents whose every "<" opens a tag that has a name and is closed
RECURSIVE WellFormed(_, _)
WellFormed(s, state) ==
    IF s = <<>> THEN state = "text"
    ELSE IF state = "text"
    THEN IF Head(s) = ">" THEN FALSE
         ELSE WellFormed(Tail(s), IF Head(s) = "<" THEN "open" ELSE "text")
    ELSE IF Head(s) = "<" THEN FALSE
    ELSE IF Head(s) = ">" THEN state = "name" /\ WellFormed(Tail(s), "text")
    ELSE WellFormed(Tail(s), "name")

Bodies ==
    {b \in UNION {[1..n -> Chars] : n \in 0..MaxBody} : WellFormed(b, "text")}

ErrorMsgs ==
    {<< <<"a">> >>, << <<"A", "a">> >>, << <<"b">>, <<"a", "B">> >>, <<>>}

RECON_STEPS == {"none", "contact_info", "profile_image"}

NoProbe == [state |-> "off"]

NoCall == [state |-> "off", fn |-> "none"]

\* a call answered by an arbitrary exchange
ProbeInitScript ==
    \E info \in ProbeInfos, script \in Scripts, deep \in BOOLEAN, rf \in RECON_STEPS :
        probe = [state |-> "call", username |-> <<"u">>, info |-> info,
                 script |-> script, deep_scan |-> deep, recon_fail |-> rf]

\* a call on a response-text spec answered at once by an arbitrary document
ProbeInitText ==
    \E msgs \in ErrorMsgs, u \in {HttpsUrl, HttpUrl}, s \in {200, 404},
       b \in Bodies, deep \in BOOLEAN, rf \in RECON_STEPS :
        probe = [state |-> "call", username |-> <<"u">>,
                 info |-> TextInfo(u, msgs, TRUE),
                 script |-> ConstScript(Response(s, b)),
                 deep_scan |-> deep, recon_fail |-> rf]

ScanOff ==
    /\ args = [threads |-> 1, retry |-> FALSE, output |-> "none", deep_scan |-> FALSE]
    /\ username = <<>>
    /\ platforms = <<>>
    /\ items = <<>>
    /\ pc = "off"
    /\ submitted = 0
    /\ queue = <<>>
    /\ running = {}
    /\ done = {}
    /\ results = <<>>
    /\ pbar = 0
    /\ events = <<>>
    /\ failed_results = <<>>
    /\ retry_results = <<>>
    /\ attempt = 0
    /\ tables = <<>>
    /\ displayed = <<>>
    /\ saved = <<>>

\* a platform entry of the redirect-pattern kind: the two patterns are extra
\* keys of the entry, which check_platform never reads
RedirectInfo(url, success, failure) ==
    OtherInfo(url) @@ [success_pattern |-> success, failure_pattern |-> failure]

\* a response whose final address, after the redirects requests followed, is
\* final (requests.Response.url)
Redirected(response, final) == response @@ [url |-> final]

FinalUrls == {<<"a">>, <<"b">>, <<"c">>, <<"a", "b">>}

\* a call on a redirect-pattern spec answered at once by a response that
\* ended at an arbitrary address
ProbeInitRedirect ==
    \E final \in FinalUrls, s \in {200, 404}, u \in {HttpsUrl, HttpUrl},
       deep \in BOOLEAN :
        probe = [state |-> "call", username |-> <<"u">>,
                 info |-> RedirectInfo(u, <<"a">>, <<"b">>),
                 script |-> ConstScript(Redirected(Response(s, <<>>), final)),
                 deep_scan |-> deep, recon_fail |-> "none"]

ProbeInit ==
    /\ ProbeInitScript \/ ProbeInitText \/ ProbeInitRedirect
    /\ call = NoCall
    /\ ScanOff

\* the call runs to its return or to the exception it lets escape
ProbeCall ==
    /\ probe.state = "call"
    /\ probe' = [probe EXCEPT !.state = "done"] @@
                [out |-> check_platform(probe.username, <<"A">>, probe.info,
                                        probe.script, probe.deep_scan,
                                        probe.recon_fail)]
    /\ UNCHANGED <<call, scanVars>>

ProbeNext == ProbeCall

ProbeSpec == ProbeInit /\ [][ProbeNext]_vars

----------------------------------------------------------------------------
(* The scan: scan_usernames and main *)

\* the platform names a platform file may hold
Names == {<<"A">>, <<"B">>, <<"a">>, <<"a", "b">>}

\* the spec a platform file gives each name
Registry(name) ==
    CASE name = <<"A">> -> StatusInfo(HttpsUrl, TRUE)
      [] name = <<"B">> -> TextInfo(HttpUrl, << <<"a">> >>, FALSE)
      [] name = <<"a">> -> StatusInfo(Template("https://", 2), FALSE)
      [] name = <<"a", "b">> -> OtherInfo(HttpUrl)

\* the sequences of distinct names of at most n names: a dict's keys, in dict order
KeyOrders(n) ==
    {ks \in UNION {[1..k -> Names] : k \in 1..n} :
        \A i, j \in DOMAIN ks : i # j => ks[i] # ks[j]}

\* the answers the transport gives during a scan (the same to every request of a call)
ScanAnswers ==
    {ConnectError, Response(200, <<>>), Response(404, <<"A">>)}

ScanScripts == {ConstScript(a) : a \in ScanAnswers}

Init ==
    /\ probe = NoProbe
    /\ call = NoCall
    /\ args \in [threads : 1..MaxThreads, retry : BOOLEAN,
                 output : {"none", "csv"}, deep_scan : BOOLEAN]
    /\ username = <<"u">>
    /\ items \in KeyOrders(MaxPlatforms)
    /\ platforms = [n \in {items[i] : i \in DOMAIN items} |-> Registry(n)]
    /\ pc = "scan"
    /\ submitted = 0
    /\ queue = <<>>
    /\ running = {}
    /\ done = {}
    /\ results = <<>>
    /\ pbar = 0
    /\ events = <<>>
    /\ failed_results = <<>>
    /\ retry_results = <<>>
    /\ attempt = 0
    /\ tables = <<>>
    /\ displayed = <<>>
    /\ saved = <<>>

\* for attempt in range(2)
RetryPasses == 2

\* a pool that admits one worker more than max_workers
WorkerFreeOffByOne(inflight, threads) == Cardinality(inflight) <= threads

\* ThreadPoolExecutor(max_workers=threads): a worker is free to take a work item
WorkerFree(inflight, threads) == Cardinality(inflight) < threads

\* an append that loses the entries of failed probes
AppendResultDropErrors(rs, r) == IF r.available = "None" THEN rs ELSE Append(rs, r)

\* results.append(result)
AppendResult(rs, r) == Append(rs, r)

\* a filter that keeps every result, failed or not
FailedKeepAll(rs) == rs

\* [r for r in results if r["available"] is None]
Failed(rs) == SelectSeq(rs, LAMBDA r : r.available = "None")

\* the status column of print_result_table and display_results
StatusOf(r) ==
    IF r.available = "True" THEN "AVAILABLE"
    ELSE IF r.available = "False" THEN "TAKEN"
    ELSE "ERROR"

\* print_result_table: one row per result, in the order of the list it is given
TableRows(rs) ==
    [i \in DOMAIN rs |->
        [platform |-> rs[i].platform, status |-> StatusOf(rs[i]),
         profile |-> IF rs[i].available = "False" THEN rs[i].url ELSE <<"-">>]]

\* sorted(results, key=lambda x: x["platform"]): a stable insertion sort
RECURSIVE Insert(_, _)
Insert(sorted, r) ==
    IF sorted = <<>> THEN <<r>>
    ELSE IF StrLess(r.platform, Head(sorted).platform)
    THEN <<r>> \o sorted
    ELSE <<Head(sorted)>> \o Insert(Tail(sorted), r)

RECURSIVE Sorted(_)
Sorted(rs) ==
    IF rs = <<>> THEN <<>>
    ELSE Insert(Sorted(SubSeq(rs, 1, Len(rs) - 1)), rs[Len(rs)])

\* display_results: one table row per result of the sorted list
DisplayRows(rs) ==
    LET s == Sorted(rs)
    IN  [i \in DOMAIN s |->
            [platform |-> s[i].platform, status |-> StatusOf(s[i]), url |-> s[i].url]]

\* save_results: one CSV row per result, in the order of the list it is given
SaveRows(rs) ==
    [i \in DOMAIN rs |->
        [platform |-> rs[i].platform, status |-> StatusOf(rs[i]), url |-> rs[i].url,
         recon |-> rs[i].recon_data]]

\* executor.submit(check_platform, ...) for the next item of the dict
Submit ==
    /\ pc = "scan"
    /\ submitted < Len(items)
    /\ submitted' = submitted + 1
    /\ queue' = Append(queue, items[submitted + 1])
    /\ UNCHANGED <<probe, call, events, args, username, platforms, items, pc, running, done,
                   results, pbar, failed_results, retry_results, attempt, tables,
                   displayed, saved>>

\* a worker thread takes the oldest work item and enters check_platform
Start ==
    /\ pc \in {"scan", "unwinding", "interrupted"}
    /\ queue # <<>>
    /\ WorkerFree(running, args.threads)
    /\ running' = running \cup {Head(queue)}
    /\ queue' = Tail(queue)
    /\ UNCHANGED <<probe, call, events, args, username, platforms, items, pc, submitted, done,
                   results, pbar, failed_results, retry_results, attempt, tables,
                   displayed, saved>>

\* a worker's check_platform call ends; its future holds the result or the exception
Finish(p) ==
    /\ p \in running
    /\ \E script \in ScanScripts, rf \in RECON_STEPS :
          done' = done \cup
                  {[platform |-> p,
                    out |-> check_platform(username, p, platforms[p], script,
                                           args.deep_scan, rf)]}
    /\ running' = running \ {p}
    /\ UNCHANGED <<probe, call, events, args, username, platforms, items, pc, submitted, queue,
                   results, pbar, failed_results, retry_results, attempt, tables,
                   displayed, saved>>

\* a progress bar that is advanced for successful probes only
ProgressOnSuccess(ev, platform, out) ==
    IF out.raised \/ out.result.available = "None" THEN ev ELSE Append(ev, platform)

\* the finally clause of the as_completed loop: pbar.update(1) and
\* pbar.set_postfix_str("Last: " + platform)
ProgressEvent(ev, platform, out) == Append(ev, platform)

\* one iteration of the as_completed loop: the result is appended, or the
\* handler of an escaped exception builds the fallback entry, formatting the
\* URL again; pbar.update(1) runs either way
Collect(d) ==
    /\ pc = "scan"
    /\ submitted = Len(items)
    /\ d \in done
    /\ done' = done \ {d}
    /\ pbar' = pbar + 1
    /\ events' = ProgressEvent(events, d.platform, d.out)
    /\ IF ~d.out.raised
       THEN /\ results' = AppendResult(results, d.out.result)
            /\ pc' = pc
       ELSE LET f == Format(platforms[d.platform], username)
            IN  IF f.ok
                THEN /\ results' = AppendResult(results,
                                      [platform |-> d.platform, url |-> f.url,
                                       available |-> "None", error |-> d.out.exc,
                                       recon_data |-> {}])
                     /\ pc' = pc
                ELSE /\ results' = results
                     /\ pc' = "unwinding"
    /\ UNCHANGED <<probe, call, args, username, platforms, items, submitted, queue,
                   running, failed_results, retry_results, attempt, tables,
                   displayed, saved>>

\* the user interrupts the scan: KeyboardInterrupt is raised in the main thread
\* while it submits or waits in as_completed, and starts to leave scan_usernames
Interrupt ==
    /\ pc = "scan"
    /\ pc' = "interrupted"
    /\ UNCHANGED <<probe, call, events, args, username, platforms, items, submitted,
                   queue, running, done, results, pbar, failed_results,
                   retry_results, attempt, tables, displayed, saved>>

\* the exception leaves scan_usernames once the executor has run every work item
\* (shutdown(wait=True)), and ends main without a report: exit status 1, after
\* "Scan aborted by user" for KeyboardInterrupt and "Error: ..." otherwise
Abort ==
    /\ pc \in {"unwinding", "interrupted"}
    /\ queue = <<>>
    /\ running = {}
    /\ pc' = IF pc = "interrupted" THEN "cancelled" ELSE "aborted"
    /\ UNCHANGED <<probe, call, events, args, username, platforms, items, submitted, queue,
                   running, done, results, pbar, failed_results, retry_results,
                   attempt, tables, displayed, saved>>

\* scan_usernames returns; main prints the initial table
ScanReturn ==
    /\ pc = "scan"
    /\ submitted = Len(items)
    /\ pbar = Len(items)
    /\ tables' = Append(tables, TableRows(results))
    /\ pc' = "scanned"
    /\ UNCHANGED <<probe, call, events, args, username, platforms, items, submitted, queue,
                   running, done, results, pbar, failed_results, retry_results,
                   attempt, displayed, saved>>

\* main, lines 917-922: the retry loop is entered only with --retry and failures
RetryBegin ==
    /\ pc = "scanned"
    /\ IF args.retry
       THEN /\ failed_results' = Failed(results)
            /\ pc' = IF Failed(results) # <<>> THEN "retry" ELSE "display"
       ELSE /\ failed_results' = failed_results
            /\ pc' = "display"
    /\ UNCHANGED <<probe, call, events, args, username, platforms, items, submitted, queue,
                   running, done, results, pbar, retry_results, attempt, tables,
                   displayed, saved>>

\* one check_platform call of a retry pass, for the next failed platform
RetryProbe ==
    /\ pc = "retry"
    /\ Len(retry_results) < Len(failed_results)
    /\ LET fr == failed_results[Len(retry_results) + 1]
       IN  \E script \in ScanScripts :
              LET out == check_platform(username, fr.platform, platforms[fr.platform],
                                        script, FALSE, "none")
              IN  IF out.raised
                  THEN /\ pc' = "aborted"
                       /\ retry_results' = retry_results
                  ELSE /\ pc' = pc
                       /\ retry_results' = Append(retry_results, out.result)
    /\ UNCHANGED <<probe, call, events, args, username, platforms, items, submitted, queue,
                   running, done, results, pbar, failed_results, attempt, tables,
                   displayed, saved>>

\* the end of a retry pass: its table is printed, the work list becomes the
\* pass's failures, and the loop ends when none is left or after the second pass
RetryPassEnd ==
    /\ pc = "retry"
    /\ Len(retry_results) = Len(failed_results)
    /\ tables' = Append(tables, TableRows(retry_results))
    /\ failed_results' = Failed(retry_results)
    /\ IF Failed(retry_results) = <<>> \/ attempt + 1 = RetryPasses
       THEN /\ pc' = "display"
            /\ UNCHANGED <<attempt, retry_results>>
       ELSE /\ pc' = pc
            /\ attempt' = attempt + 1
            /\ retry_results' = <<>>
    /\ UNCHANGED <<probe, call, events, args, username, platforms, items, submitted, queue,
                   running, done, results, pbar, displayed, saved>>

\* display_results(results, ...)
Display ==
    /\ pc = "display"
    /\ displayed' = DisplayRows(results)
    /\ pc' = "save"
    /\ UNCHANGED <<probe, call, events, args, username, platforms, items, submitted, queue,
                   running, done, results, pbar, failed_results, retry_results,
                   attempt, tables, saved>>

\* save_results(results, ...) when --output is given
Save ==
    /\ pc = "save"
    /\ saved' = IF args.output # "none" THEN SaveRows(results) ELSE saved
    /\ pc' = "done"
    /\ UNCHANGED <<probe, call, events, args, username, platforms, items, submitted, queue,
                   running, done, results, pbar, failed_results, retry_results,
                   attempt, tables, displayed>>

Next ==
    \/ Submit
    \/ Start
    \/ \E p \in Names : Finish(p)
    \/ \E d \in done : Collect(d)
    \/ Interrupt
    \/ Abort
    \/ ScanReturn
    \/ RetryBegin
    \/ RetryProbe
    \/ RetryPassEnd
    \/ Display
    \/ Save

Spec == Init /\ [][Next]_vars

----------------------------------------------------------------------------
(* Properties *)

PlatformsOf(rows) == {rows[i].platform : i \in DOMAIN rows}

ErrorsOf(rows) == {rows[i].platform : i \in {j \in DOMAIN rows : rows[j].status = "ERROR"}}

IsAscending(rows) ==
    \A i, j \in DOMAIN rows : i < j => StrLess(rows[i].platform, rows[j].platform)

ScanReturned == pc \in {"scanned", "retry", "display", "save", "done"}

\* C1: when scan_usernames has returned, the results list holds exactly one
\* entry for every platform name of the input, whatever the completion order
\* and whatever the probes' outcomes.
C1_OneEntryPerPlatform ==
    ScanReturned =>
        /\ Len(results) = Len(items)
        /\ \A n \in DOMAIN platforms :
              Cardinality({i \in DOMAIN results : results[i].platform = n}) = 1

\* C1 witness: a returned scan of three platforms that completed out of
\* submission order, with a failure and a success among them.
C1_Witness ==
    /\ pc = "scanned"
    /\ Len(results) = 3
    /\ results[1].platform # items[1]
    /\ \E i, j \in DOMAIN results :
          results[i].available = "None" /\ results[j].available = "False"

\* C2 (as claimed): every output surface receives the entries in ascending
\* platform-name order, so the sequence does not depend on completion order.
C2_SurfacesAscending ==
    pc = "done" =>
        /\ IsAscending(tables[1])
        /\ IsAscending(displayed)
        /\ IsAscending(saved)

\* C3: at most args.threads probes are in flight in every reachable state.
C3_InFlightBound == Cardinality(running) <= args.threads

\* C3 witness: more platforms than threads, the cap reached, and work waiting.
C3_Witness ==
    /\ Len(items) > args.threads
    /\ Cardinality(running) = args.threads
    /\ queue # <<>>
    /\ args.threads > 1

\* C4 (as claimed): no platform's failure escapes scan_usernames as an
\* exception; the scan never unwinds or aborts.
C4_NoFailureEscapes == pc \notin {"unwinding", "aborted"}

\* the probe of the stand-alone call has ended with a result dict
ProbeReturned == probe.state = "done" /\ ~probe.out.raised

\* the transport answered every request of the call with the same response
SameResponse ==
    /\ probe.script[1].kind = "response"
    /\ probe.script = ConstScript(probe.script[1])

IsMethod(m) == "method" \in DOMAIN probe.info /\ probe.info.method = m

\* C5 (as claimed): for a status-code spec, a status in the not-found set
\* yields Available, status 200 yields Taken, and a status in neither set
\* yields Indeterminate.
C5_StatusCodeThreeWay ==
    (ProbeReturned /\ IsMethod("status_code") /\ "code" \in DOMAIN probe.info
       /\ SameResponse /\ ~probe.deep_scan)
    => LET s == probe.script[1].status
       IN  probe.out.result.available =
              IF s \in probe.info.code THEN "True"
              ELSE IF s = 200 THEN "False"
              ELSE "None"

\* m occurs in s, compared without regard to case
OccursIgnoringCase(m, s) ==
    \E i \in 0..(Len(s) - Len(m)) :
        \A k \in 1..Len(m) : LowerChar(s[i + k]) = LowerChar(m[k])

\* the characters of a document that lie outside its tags, in order
VisiblePositions(b) ==
    {i \in DOMAIN b :
        /\ b[i] \notin {"<", ">"}
        /\ ~\E j \in 1..(i - 1) : b[j] = "<" /\ \A k \in j..i : b[k] # ">"}

RECURSIVE PickPositions(_, _)
PickPositions(b, ps) ==
    IF ps = {} THEN <<>>
    ELSE LET m == CHOOSE x \in ps : \A y \in ps : x <= y
         IN  <<b[m]>> \o PickPositions(b, ps \ {m})

VisibleText(b) == PickPositions(b, VisiblePositions(b))

\* the stand-alone call is on a response-text spec and its get() returned a response
TextProbeAnswered ==
    /\ ProbeReturned
    /\ IsMethod("response_text")
    /\ "error_msg" \in DOMAIN probe.info
    /\ ~session_get(probe.out.result.url, probe.script).raised

ReceivedBody == session_get(probe.out.result.url, probe.script).response.body

Always429 == \A i \in DOMAIN probe.script :
                probe.script[i].kind = "response" /\ probe.script[i].status = 429

\* C7 (as claimed): against a transport that always answers 429 the probe ends
\* Indeterminate, rate limited, after exactly the configured number of requests.
C7_RateLimitedAfterConfiguredAttempts ==
    (ProbeReturned /\ Always429) =>
        /\ probe.out.result.available = "None"
        /\ "error" \in DOMAIN probe.out.result
        /\ probe.out.result.error = <<"RetryError", 429>>
        /\ probe.out.sent = RetryTotal

\* the first two requests failed at transport level and every later one got
\* the same response, which the retry policy does not itself retry
FailsTwiceThenAnswers ==
    /\ \A i \in 1..2 : probe.script[i].kind \in {"connect_error", "read_timeout"}
    /\ \A i \in 3..ScriptLen :
          /\ probe.script[i] = probe.script[3]
          /\ probe.script[i].kind = "response"
          /\ probe.script[i].status \notin StatusForcelist

\* C8 (as claimed): after two transport failures and then a response, the
\* probe returns that response's classification, for every platform URL.
C8_RecoversAfterTwoFailures ==
    (ProbeReturned /\ FailsTwiceThenAnswers /\ ~probe.deep_scan
       /\ ~classify(probe.info, probe.script[3]).raised)
    => probe.out.result.available =
          IF classify(probe.info, probe.script[3]).is_available
          THEN "True" ELSE "False"

\* the tables of the retry passes, the pass in progress included
RetryTables ==
    SubSeq(tables, 2, Len(tables))
    \o (IF pc = "retry" THEN <<TableRows(retry_results)>> ELSE <<>>)

\* C9 (as claimed): in the final report every platform a retry resolved
\* carries the retry's outcome.
C9_RetryOutcomeInReport ==
    pc = "done" =>
        \A k \in 2..Len(tables) : \A i \in DOMAIN tables[k] :
            tables[k][i].status # "ERROR" =>
                \E j \in DOMAIN displayed :
                    /\ displayed[j].platform = tables[k][i].platform
                    /\ displayed[j].status = tables[k][i].status

\* C10: retry passes run only with --retry, there are at most two, each pass
\* probes exactly the platforms whose latest result is Indeterminate (each
\* once), the probed sets shrink from pass to pass, and no pass follows a
\* table without an Indeterminate entry.
C10_RetryPasses ==
    /\ ~args.retry => (pc # "retry" /\ Len(tables) <= 1)
    /\ Len(RetryTables) <= RetryPasses
    /\ \A k \in 2..Len(tables) :
          /\ PlatformsOf(tables[k]) = ErrorsOf(tables[k - 1])
          /\ Len(tables[k]) = Cardinality(PlatformsOf(tables[k]))
          /\ k > 2 => PlatformsOf(tables[k]) \subseteq PlatformsOf(tables[k - 1])
    /\ pc = "retry" =>
          /\ tables # <<>>
          /\ ErrorsOf(tables[Len(tables)]) # {}
          /\ PlatformsOf(TableRows(retry_results)) \subseteq ErrorsOf(tables[Len(tables)])
          /\ Len(retry_results) = Cardinality(PlatformsOf(TableRows(retry_results)))

\* C10 witness: two passes ran, the second over a strictly smaller set, and a
\* platform resolved in the first pass was left alone in the second.
C10_Witness ==
    /\ pc = "done"
    /\ Len(tables) = 3
    /\ PlatformsOf(tables[3]) # PlatformsOf(tables[2])
    /\ PlatformsOf(tables[3]) # {}

\* C11 (as claimed): a scan interrupted after some probes completed still ends
\* with a report: one entry per platform, the completed probes' entries with
\* their outcomes and the rest Indeterminate.
C11_InterruptYieldsPartialReport ==
    pc = "cancelled" =>
        /\ Len(displayed) = Len(items)
        /\ \A i \in DOMAIN results :
              \E j \in DOMAIN displayed :
                  /\ displayed[j].platform = results[i].platform
                  /\ displayed[j].status = StatusOf(results[i])
        /\ Cardinality(ErrorsOf(displayed)) >= Len(items) - Len(results)

\* C12 (as claimed): once the interrupt has arrived no queued probe is
\* started; the set of probes in flight only shrinks.
C12_NoDispatchAfterInterrupt ==
    [][pc = "interrupted" => running' \subseteq running]_vars

\* C13: the progress bar is advanced once per platform and only for a platform
\* whose probe has ended, whether it succeeded, failed or raised; when the
\* scan returns there is one event for every platform.
C13_OneProgressEventPerProbe ==
    /\ pbar = Len(events)
    /\ \A i, j \in DOMAIN events : i # j => events[i] # events[j]
    /\ \A i \in DOMAIN events :
          /\ \E k \in 1..submitted : items[k] = events[i]
          /\ events[i] \notin running
          /\ ~\E k \in DOMAIN queue : queue[k] = events[i]
    /\ ScanReturned =>
          /\ pbar = Len(items)
          /\ {events[i] : i \in DOMAIN events} = DOMAIN platforms

\* C13 witness: a returned scan of three platforms, one failed and one
\* classified, with its three progress events.
C13_Witness ==
    /\ pc = "scanned"
    /\ Len(events) = 3
    /\ \E i, j \in DOMAIN results :
          results[i].available = "None" /\ results[j].available # "None"

\* C14 (as claimed): for a redirect-pattern spec the status follows the final
\* address of the response: Taken if it contains the success pattern,
\* Available if it contains the failure pattern, Indeterminate otherwise.
C14_RedirectByFinalUrl ==
    (ProbeReturned /\ IsMethod("redirect") /\ SameResponse
       /\ "success_pattern" \in DOMAIN probe.info
       /\ "url" \in DOMAIN probe.script[1])
    => LET final == probe.script[1].url
       IN  probe.out.result.available =
              IF IsInfix(probe.info.success_pattern, final) THEN "False"
              ELSE IF IsInfix(probe.info.failure_pattern, final) THEN "True"
              ELSE "None"

\* the results a scan has produced so far: those collected, those of the retry
\* passes, and those held by finished futures
Produced ==
    {results[i] : i \in DOMAIN results}
    \cup {retry_results[i] : i \in DOMAIN retry_results}
    \cup {d.out.result : d \in {x \in done : ~x.out.raised}}

\* C18: a result carries an error exactly when its status is Indeterminate.
C18_ErrorIffIndeterminate ==
    \A r \in Produced : ("error" \in DOMAIN r) <=> (r.available = "None")

\* C18 witness: a returned scan whose results hold an Indeterminate entry with
\* its error next to a Taken and an Available entry without one.
C18_Witness ==
    /\ pc = "scanned"
    /\ \E i, j, k \in DOMAIN results :
          /\ results[i].available = "None" /\ "error" \in DOMAIN results[i]
          /\ results[j].available = "False" /\ "error" \notin DOMAIN results[j]
          /\ results[k].available = "True" /\ "error" \notin DOMAIN results[k]

\* the response the call received and what the availability step made of it
Received == session_get(Format(probe.info, probe.username).url, probe.script)
ClassifiedTaken ==
    /\ ~Received.raised
    /\ LET c == classify(probe.info, Received.response)
       IN  ~c.raised /\ ~c.is_available

\* C20 (as claimed): a response classified as Taken is returned as Taken
\* whatever the reconnaissance step does afterwards, and only Taken results
\* carry recon data.
C20_ReconFailureKeepsTaken ==
    ProbeReturned =>
        /\ ClassifiedTaken => probe.out.result.available = "False"
        /\ probe.out.result.recon_data # {} => probe.out.result.available = "False"

----------------------------------------------------------------------------
(* load_platforms on its own *)

MaxMembers == 2

\* the built-in dict, cut down to its first entry and one response-text entry
BuiltIn ==
    [keys |-> << <<"GitHub">>, <<"VK">> >>,
     dict |-> (<<"GitHub">> :> StatusInfo(<<"https://", "github.com", "/", "{}">>, TRUE))
              @@ (<<"VK">> :> [url |-> <<"https://", "vk.com", "/", "{}">>,
                               method |-> "response_text",
                               error_msg |-> << <<"4", "0", "4">> >>])]

\* the entries a caller's JSON file can give a platform
FileEntries ==
    {StatusInfo(HttpsUrl, FALSE), NoUrlInfo, NoMethodInfo(HttpsUrl),
     StatusInfo(Template("https://", 0), FALSE)}

\* a JSON object as written: its members in file order, names possibly repeated
Files ==
    UNION {[1..k -> {<<"A">>, <<"B">>} \X FileEntries] : k \in 0..MaxMembers}

\* json.load of an object: a dict keyed by the names in order of first
\* appearance, each with the value of its last member
json_load(f) ==
    LET first(i) == \A j \in 1..(i - 1) : f[j][1] # f[i][1]
        last(n) == CHOOSE i \in DOMAIN f :
                      f[i][1] = n /\ \A j \in DOMAIN f : f[j][1] = n => j <= i
        firsts == SelectSeq([i \in DOMAIN f |-> i], first)
    IN  [keys |-> [k \in DOMAIN firsts |-> f[firsts[k]][1]],
         dict |-> [n \in {f[i][1] : i \in DOMAIN f} |-> f[last(n)][2]]]

\* load_platforms(config_path): the file's content as parsed when config_path
\* names a file, the built-in dict otherwise
load_platforms(config_path, isfile, f) ==
    IF config_path # "None" /\ isfile
    THEN [raised |-> FALSE, platforms |-> json_load(f)]
    ELSE [raised |-> FALSE, platforms |-> BuiltIn]

LoadInit ==
    /\ \E cp \in {"None", "path"}, isfile \in BOOLEAN, f \in Files :
          call = [state |-> "call", fn |-> "load_platforms", config_path |-> cp,
                  isfile |-> isfile, file |-> f]
    /\ probe = NoProbe
    /\ ScanOff

\* main: platforms = load_platforms(args.platforms)
LoadCall ==
    /\ call.state = "call"
    /\ call.fn = "load_platforms"
    /\ call' = [call EXCEPT !.state = "done"] @@
               [out |-> load_platforms(call.config_path, call.isfile, call.file)]
    /\ UNCHANGED <<probe, scanVars>>

LoadNext == LoadCall

LoadSpec == LoadInit /\ [][LoadNext]_vars

\* an override source the specification calls malformed
Malformed(f) ==
    \/ \E i \in DOMAIN f : "url" \notin DOMAIN f[i][2] \/ "method" \notin DOMAIN f[i][2]
    \/ \E i, j \in DOMAIN f : i # j /\ f[i][1] = f[j][1]
    \/ \E i \in DOMAIN f : "url" \in DOMAIN f[i][2] /\ Slots(f[i][2].url) # 1

Loaded == call.state = "done" /\ call.fn = "load_platforms"

\* C15 (as claimed): loading a malformed override source fails with a
\* configuration error and returns no platform set; with no source supplied
\* the built-in defaults are returned.
C15_MalformedSourceRejected ==
    Loaded =>
        /\ (call.config_path # "None" /\ call.isfile /\ Malformed(call.file))
              => call.out.raised
        /\ call.config_path = "None"
              => ~call.out.raised /\ call.out.platforms = BuiltIn

----------------------------------------------------------------------------
(* generate_username_variants on its own *)

MaxName == 3

NameChars == {"a", "s", "_", "."}

Usernames == UNION {[1..k -> NameChars] : k \in 1..MaxName}

leet_map(c) ==
    CASE c \in {"a", "A"} -> {"4", "@"}
      [] c \in {"e", "E"} -> {"3"}
      [] c \in {"i", "I"} -> {"1"}
      [] c \in {"o", "O"} -> {"0"}
      [] c \in {"s", "S"} -> {"5"}
      [] c \in {"t", "T"} -> {"7"}
      [] OTHER -> {}

\* one character replaced by one of its leet forms
leetify(s) ==
    UNION {{[s EXCEPT ![i] = l] : l \in leet_map(s[i])} : i \in DOMAIN s}

\* s.replace(c, r)
RECURSIVE Replace(_, _, _)
Replace(s, c, r) ==
    IF s = <<>> THEN <<>>
    ELSE (IF Head(s) = c THEN r ELSE <<Head(s)>>) \o Replace(Tail(s), c, r)

Contains(s, c) == \E i \in DOMAIN s : s[i] = c

underscore_dot_variants(s) ==
    (IF Contains(s, "_")
     THEN {Replace(s, "_", <<>>), Replace(s, "_", <<"-">>)} ELSE {})
    \cup (IF Contains(s, ".")
          THEN {Replace(s, ".", <<>>), Replace(s, ".", <<"-">>)} ELSE {})

\* s[:i+1] + s[i] + s[i+1:] for every position
duplicate_letters(s) ==
    {SubSeq(s, 1, i) \o <<s[i]>> \o SubSeq(s, i + 1, Len(s)) : i \in DOMAIN s}

swap_adjacent(s) ==
    {[s EXCEPT ![i] = s[i + 1], ![i + 1] = s[i]] : i \in 1..(Len(s) - 1)}

\* range(1, 10)
Digits == {"1", "2", "3", "4", "5", "6", "7", "8", "9"}

add_numbers(s) == UNION {{s \o <<d>>, <<d>> \o s} : d \in Digits}

\* the five rules applied to one string
Rules(s) ==
    leetify(s) \cup underscore_dot_variants(s) \cup duplicate_letters(s)
    \cup swap_adjacent(s) \cup add_numbers(s)

\* "Collect all variants"
FirstRound(u) == Rules(u)

\* "Combine some rules": the rules applied to every first-round variant
SecondRound(vs) == vs \cup UNION {Rules(v) : v \in vs}

\* a function that forgets to remove the username
DiscardNothing(vs, u) == vs

\* variants.discard(username)
Discard(vs, u) == vs \ {u}

\* list(set(variants)): the list as the bag of its elements (its order is arbitrary)
list_of_set(vs) == [v \in vs |-> 1]

generate_username_variants(u) ==
    list_of_set(Discard(SecondRound(FirstRound(u)), u))

VariantInit ==
    /\ \E u \in Usernames :
          call = [state |-> "call", fn |-> "generate_username_variants",
                  username |-> u]
    /\ probe = NoProbe
    /\ ScanOff

\* run_fuzzy_scan: variants = generate_username_variants(username)
VariantCall ==
    /\ call.state = "call"
    /\ call.fn = "generate_username_variants"
    /\ call' = [call EXCEPT !.state = "done"] @@
               [out |-> generate_username_variants(call.username)]
    /\ UNCHANGED <<probe, scanVars>>

VariantNext == VariantCall

VariantSpec == VariantInit /\ [][VariantNext]_vars

Expanded == call.state = "done" /\ call.fn = "generate_username_variants"

\* C16: the list returned for a username does not contain the username and
\* contains no string twice.
C16_NoOriginalNoDuplicates ==
    Expanded =>
        /\ call.username \notin DOMAIN call.out
        /\ \A v \in DOMAIN call.out : call.out[v] = 1

\* C16 witness: a username that the second round produces again from one of
\* its first-round variants, and whose list has a leet form.
C16_Witness ==
    /\ Expanded
    /\ \E v \in FirstRound(call.username) \ {call.username} :
          call.username \in Rules(v)
    /\ leetify(call.username) \cap DOMAIN call.out # {}

----------------------------------------------------------------------------
(* One iteration of run_fuzzy_scan's loop over platforms and variants *)

NotFoundMsg == <<"4", "0", "4">>

\* the spec run_fuzzy_scan builds for a URL the user typed in
CustomInfo(url) ==
    [url |-> url, method |-> "status_code", code |-> {404},
     error_msg |-> <<NotFoundMsg>>]

NoErrorMsgInfo(url) == [url |-> url, method |-> "response_text"]

FuzzyInfos ==
    ProbeInfos \cup {CustomInfo(HttpsUrl), NoErrorMsgInfo(HttpsUrl),
                     TextInfo(HttpUrl, << <<"a">> >>, FALSE)}

Variants == {<<"u", "1">>, <<"v">>}

\* the body of the loop: the request and the decision whether the variant
\* exists; every exception, the template's included, skips to the next variant
fuzzy_probe(info, variant, script) ==
    LET f == Format(info, variant)
        skip(n) == [found |-> FALSE, sent |-> n]
    IN  IF ~f.ok THEN skip(0)
        ELSE LET got == session_get(f.url, script)
             IN  IF got.raised THEN skip(got.sent)
                 ELSE IF "method" \notin DOMAIN info THEN skip(got.sent)
                 ELSE IF info.method = "status_code"
                 THEN LET code == IF "code" \in DOMAIN info THEN info.code ELSE {404}
                      IN  [found |-> got.response.status \notin code, sent |-> got.sent]
                 ELSE IF info.method = "response_text"
                 THEN LET page_text == lower(get_text(got.response.body))
                          error_msgs == IF "error_msg" \in DOMAIN info
                                        THEN info.error_msg ELSE <<NotFoundMsg>>
                      IN  [found |-> ~\E i \in DOMAIN error_msgs :
                                         IsInfix(lower(error_msgs[i]), page_text),
                           sent |-> got.sent]
                 ELSE skip(got.sent)

FuzzyInit ==
    /\ \E info \in FuzzyInfos, v \in Variants, script \in Scripts :
          call = [state |-> "call", fn |-> "run_fuzzy_scan", info |-> info,
                  variant |-> v, script |-> script]
    /\ probe = NoProbe
    /\ ScanOff

\* the iteration for one platform and one variant
FuzzyCall ==
    /\ call.state = "call"
    /\ call.fn = "run_fuzzy_scan"
    /\ call' = [call EXCEPT !.state = "done"] @@
               [out |-> fuzzy_probe(call.info, call.variant, call.script)]
    /\ UNCHANGED <<probe, scanVars>>

FuzzyNext == FuzzyCall

FuzzySpec == FuzzyInit /\ [][FuzzyNext]_vars

Fuzzed == call.state = "done" /\ call.fn = "run_fuzzy_scan"

\* C17 (as claimed): a variant is reported as found exactly when check_platform,
\* given the same spec and the same answers, returns Taken.
C17_FuzzyMatchesProbe ==
    Fuzzed =>
        LET r == check_platform(call.variant, <<"A">>, call.info, call.script,
                                FALSE, "none")
        IN  call.out.found <=> (~r.raised /\ r.result.available = "False")

----------------------------------------------------------------------------
(* The session's User-Agent header under concurrent check_platform calls *)

\* FALLBACK_UA_LIST, each agent named by its platform token
FALLBACK_UA_LIST == {"Windows", "Macintosh", "Linux"}

\* the header a new requests.Session carries
DefaultUA == "python-requests"

Workers == 1..MaxThreads

UAInit ==
    /\ \E n \in 2..MaxPlatforms :
        call = [state |-> "run", fn |-> "workers", session_ua |-> DefaultUA,
               queued |-> n,
               at |-> [w \in Workers |-> "idle"],
               chosen |-> [w \in Workers |-> "None"],
               sent |-> [w \in Workers |-> "None"]]
    /\ probe = NoProbe
    /\ ScanOff

\* worker w takes the next submitted check_platform call
TakeProbe(w) ==
    /\ call.fn = "workers"
    /\ call.at[w] \in {"idle", "sent"}
    /\ call.queued > 0
    /\ call' = [call EXCEPT !.queued = @ - 1, !.at[w] = "try",
                            !.chosen[w] = "None", !.sent[w] = "None"]
    /\ UNCHANGED <<probe, scanVars>>

\* session.headers["User-Agent"] = get_random_user_agent(), in worker w
SetUserAgent(w) ==
    /\ call.fn = "workers"
    /\ call.at[w] = "try"
    /\ \E ua \in FALLBACK_UA_LIST :
          call' = [call EXCEPT !.session_ua = ua, !.chosen[w] = ua,
                               !.at[w] = "get"]
    /\ UNCHANGED <<probe, scanVars>>

\* session.get(url, ...), in worker w: the request is prepared with the headers
\* the session has at that moment
SendRequest(w) ==
    /\ call.fn = "workers"
    /\ call.at[w] = "get"
    /\ call' = [call EXCEPT !.sent[w] = call.session_ua, !.at[w] = "sent"]
    /\ UNCHANGED <<probe, scanVars>>

UANext == \E w \in Workers : TakeProbe(w) \/ SetUserAgent(w) \/ SendRequest(w)

UASpec == UAInit /\ [][UANext]_vars

\* C19 (as claimed): no probe changes the shared session, and the User-Agent
\* sent with a probe's request is the one that probe chose.
C19_UserAgentLocalToAttempt ==
    call.fn = "workers" =>
        /\ call.session_ua = DefaultUA
        /\ \A w \in Workers :
              call.at[w] = "sent" => call.sent[w] = call.chosen[w]

----------------------------------------------------------------------------
(* run_fuzzy_scan without fuzzy_all: the prompts, then the loop *)

MaxCustom == 2

RECURSIVE lstrip(_)
lstrip(s) == IF s # <<>> /\ Head(s) = " " THEN lstrip(Tail(s)) ELSE s

RECURSIVE rstrip(_)
rstrip(s) ==
    IF s # <<>> /\ s[Len(s)] = " " THEN rstrip(SubSeq(s, 1, Len(s) - 1)) ELSE s

\* str.strip()
strip(s) == rstrip(lstrip(s))

\* what the user can type at a prompt
Inputs ==
    {<<"o", "k">>, <<" ", "O", "K">>, <<"n">>, <<"N", " ">>, <<"y">>, <<"Y">>,
     <<>>, <<" ">>, <<"a">>, HttpUrl, <<"A">>, Template("https://", 2)}

\* platform_names = list(platforms.keys())
FuzzyNames == << <<"A">>, <<"B">> >>

\* the variants of the username, in list order
VariantList == << <<"u", "1">>, <<"v">> >>

\* a selection step that takes the platform whatever the answer
SelectAlways(selected, pname, choice) == Append(selected, pname)

\* lines 757-761: the platform is appended when the answer is "y"
Select(selected, pname, choice) ==
    IF choice = <<"y">> THEN Append(selected, pname) ELSE selected

\* requests refuses a URL without a scheme (MissingSchema) before sending
HasScheme(url) == url # <<>> /\ url[1] \in {"https://", "http://"}

PromptInit ==
    /\ call = [state |-> "run", fn |-> "fuzzy_prompts", at |-> "opening",
               idx |-> 1, vi |-> 1, selected |-> <<>>, requests |-> <<>>,
               input |-> <<>>,
               prev |-> [at |-> "none", idx |-> 1, selected |-> <<>>],
               ok_seen |-> FALSE, yes_seen |-> FALSE, reasked |-> FALSE,
               chosen |-> {}, customs |-> {}]
    /\ probe = NoProbe
    /\ ScanOff

AtPrompt(p) == call.fn = "fuzzy_prompts" /\ call.at = p

\* the record after one input() call: the raw line and the position it was
\* typed at are remembered
Asked(raw, c) ==
    [c EXCEPT !.input = raw,
              !.prev = [at |-> call.at, idx |-> call.idx, selected |-> call.selected],
              !.reasked = call.reasked
                          \/ (c.at = call.at /\ c.idx = call.idx
                              /\ c.selected = call.selected)]

\* lines 743-751
OpeningPrompt ==
    /\ AtPrompt("opening")
    /\ \E raw \in Inputs :
          LET user_input == lower(strip(raw))
          IN  call' = Asked(raw,
                  IF user_input = <<"o", "k">>
                  THEN [call EXCEPT !.at = "select", !.ok_seen = TRUE]
                  ELSE IF user_input = <<"n">>
                  THEN [call EXCEPT !.at = "returned"]
                  ELSE call)
    /\ UNCHANGED <<probe, scanVars>>

\* lines 754-763: the question for platform_names[idx]
SelectPrompt ==
    /\ AtPrompt("select")
    /\ \E raw \in Inputs :
          LET choice == lower(strip(raw))
              pname == FuzzyNames[call.idx]
              next == IF call.idx < Len(FuzzyNames)
                      THEN [call EXCEPT !.idx = @ + 1]
                      ELSE [call EXCEPT !.at = "custom"]
          IN  call' = Asked(raw,
                  IF choice \in {<<"y">>, <<"n">>}
                  THEN [next EXCEPT
                          !.selected = Select(call.selected, pname, choice),
                          !.chosen = IF choice = <<"y">> THEN @ \cup {pname} ELSE @]
                  ELSE call)
    /\ UNCHANGED <<probe, scanVars>>

\* lines 766-771 and 780-782: the first question for a custom URL
CustomPrompt ==
    /\ AtPrompt("custom")
    /\ \E raw \in Inputs :
          LET custom == strip(raw)
          IN  call' = Asked(raw,
                  IF lower(custom) = <<"n">>
                  THEN [call EXCEPT !.at = "confirm"]
                  ELSE IF custom # <<>>
                  THEN [call EXCEPT !.at = "more",
                                    !.selected = Append(@, custom),
                                    !.customs = @ \cup {custom}]
                  ELSE call)
    /\ UNCHANGED <<probe, scanVars>>

\* lines 772-779: the question for further custom URLs
MorePrompt ==
    /\ AtPrompt("more")
    /\ \E raw \in Inputs :
          LET more == strip(raw)
          IN  /\ (lower(more) # <<"n">> /\ more # <<>>)
                    => Len(call.selected) - Cardinality(call.chosen) < MaxCustom
              /\ call' = Asked(raw,
                     IF lower(more) = <<"n">>
                     THEN [call EXCEPT !.at = "confirm"]
                     ELSE IF more # <<>>
                     THEN [call EXCEPT !.selected = Append(@, more),
                                       !.customs = @ \cup {more}]
                     ELSE call)
    /\ UNCHANGED <<probe, scanVars>>

\* lines 789-797
ConfirmPrompt ==
    /\ AtPrompt("confirm")
    /\ \E raw \in Inputs :
          LET confirm == lower(strip(raw))
          IN  call' = Asked(raw,
                  IF confirm = <<"y">>
                  THEN [call EXCEPT !.at = "scan", !.idx = 1, !.vi = 1,
                                    !.yes_seen = TRUE]
                  ELSE IF confirm = <<"n">>
                  THEN [call EXCEPT !.at = "returned"]
                  ELSE call)
    /\ UNCHANGED <<probe, scanVars>>

\* the registry the fuzzy scan is given
FuzzyPlatforms == [n \in {<<"A">>, <<"B">>} |-> Registry(n)]

\* lines 805-837: one iteration for selected_platforms[idx] and variants[vi]
FuzzProbe ==
    /\ AtPrompt("scan")
    /\ call.idx <= Len(call.selected)
    /\ LET platform == call.selected[call.idx]
           info == IF platform \in DOMAIN FuzzyPlatforms
                   THEN FuzzyPlatforms[platform] ELSE CustomInfo(platform)
       IN  \E script \in ScanScripts :
              LET out == fuzzy_probe(info, VariantList[call.vi], script)
                  url == Format(info, VariantList[call.vi]).url
              IN  call' = [call EXCEPT
                     !.requests = IF out.sent > 0 /\ HasScheme(url)
                                  THEN Append(@, platform) ELSE @,
                     !.vi = IF call.vi < Len(VariantList) THEN @ + 1 ELSE 1,
                     !.idx = IF call.vi < Len(VariantList) THEN @ ELSE @ + 1]
    /\ UNCHANGED <<probe, scanVars>>

\* the loop is over; the table is printed and run_fuzzy_scan returns
FuzzReturn ==
    /\ AtPrompt("scan")
    /\ call.idx > Len(call.selected)
    /\ call' = [call EXCEPT !.at = "returned"]
    /\ UNCHANGED <<probe, scanVars>>

PromptNext ==
    \/ OpeningPrompt
    \/ SelectPrompt
    \/ CustomPrompt
    \/ MorePrompt
    \/ ConfirmPrompt
    \/ FuzzProbe
    \/ FuzzReturn

PromptSpec == PromptInit /\ [][PromptNext]_vars

\* the answers a prompt accepts
Valid(at, raw) ==
    CASE at \in {"opening"} -> lower(strip(raw)) \in {<<"o", "k">>, <<"n">>}
      [] at \in {"select", "confirm"} -> lower(strip(raw)) \in {<<"y">>, <<"n">>}
      [] at \in {"custom", "more"} -> strip(raw) # <<>>
      [] OTHER -> TRUE

\* C21: without fuzzy_all a request is sent only after "ok" at the opening
\* prompt and "y" at the final one; "n" at either ends the scan with no
\* request; an invalid answer leaves the prompt, the platform asked about and
\* the selection as they were; and every platform probed was answered "y" or
\* typed in as a custom URL.
C21_RequestsOnlyAfterConsent ==
    call.fn = "fuzzy_prompts" =>
        /\ call.requests # <<>> => call.ok_seen /\ call.yes_seen
        /\ (call.prev.at \in {"opening", "confirm"}
              /\ lower(strip(call.input)) = <<"n">>)
              => call.at = "returned" /\ call.requests = <<>>
        /\ ~Valid(call.prev.at, call.input)
              => /\ call.at = call.prev.at
                 /\ call.idx = call.prev.idx
                 /\ call.selected = call.prev.selected
        /\ \A i \in DOMAIN call.requests :
              call.requests[i] \in call.chosen \cup call.customs

\* C21 witness: a finished fuzzy scan in which a prompt was asked again, one
\* chosen platform and one custom URL were probed, and the platform answered
\* "n" was not.
C21_Witness ==
    /\ AtPrompt("returned")
    /\ call.reasked
    /\ call.chosen = {<<"A">>}
    /\ call.customs = {HttpUrl}
    /\ {call.requests[i] : i \in DOMAIN call.requests} = {<<"A">>, HttpUrl}

====
